---- MODULE Spec2Model ----
(***************************************************************************)
(* Model of better_graphs/better_graphs.py: the helpers set_limits,        *)
(* add_custom_ticks, beautify_bars_h and make_better_graph acting on a     *)
(* matplotlib axis.                                                        *)
(*                                                                         *)
(* Numbers.  A coordinate is a pair <<w, n>> standing for w + n*1e-10, w   *)
(* whole and n a handful of tenths of the ninth decimal place, so that     *)
(* np.round(tick, 9) is a real conversion.  Pairs compare                  *)
(* lexicographically.  Padding factors are counted in tenths (1 is 0.1),   *)
(* view limits are stored multiplied by LimDen, the bar layout's edge and  *)
(* text column multiplied by EdgeDen, and the y coordinates of the bar     *)
(* annotations multiplied by 2; all arithmetic is exact.                   *)
(***************************************************************************)
EXTENDS Integers, Sequences, FiniteSets, TLC

VARIABLES ax, prev, last, err, rep, calls

vars == <<ax, prev, last, err, rep, calls>>

\* ---------------------------------------------------------------- bounds
MaxTicks == 4
MaxCalls == 3

\* ------------------------------------------------------------- constants
LimDen == 10
EdgeDen == 20
Grid == 10

\* ----------------------------------------------------------- coordinates
PLeq(a, b) == a[1] < b[1] \/ (a[1] = b[1] /\ a[2] <= b[2])

PScale(k, a) == <<k * a[1], k * a[2]>>

PSub(a, b) == <<a[1] - b[1], a[2] - b[2]>>

PMin(a, b) == IF PLeq(a, b) THEN a ELSE b

PMax(a, b) == IF PLeq(a, b) THEN b ELSE a

RECURSIVE SeqMin(_)
SeqMin(s) == IF Len(s) = 1 THEN s[1] ELSE PMin(s[1], SeqMin(Tail(s)))

RECURSIVE SeqMax(_)
SeqMax(s) == IF Len(s) = 1 THEN s[1] ELSE PMax(s[1], SeqMax(Tail(s)))

\* np.round(n, -1) on the sub-grid part: nearest multiple of Grid, ties to even
RoundGrid(n) ==
    LET q == n \div Grid
        r == n % Grid
    IN  IF 2 * r < Grid THEN Grid * q
        ELSE IF 2 * r > Grid THEN Grid * (q + 1)
        ELSE IF q % 2 = 0 THEN Grid * q ELSE Grid * (q + 1)

\* np.round(tick, 9)
Round9(t) == <<t[1], RoundGrid(t[2])>>

\* text of a number, as set_xticklabels(ticks) followed by get_text() gives it
NumText(t) == [kind |-> "num", w |-> t[1], n |-> t[2]]

\* a caller's label
Txt(k) == [kind |-> "txt", w |-> k, n |-> 0]

\* ------------------------------------------------------------- the axis
\* ax.set_xticks / ax.set_yticks: a FixedLocator keeps the positions in the
\* order given, and the view interval grows to hold min(ticks) and max(ticks)
Widen(lim, ticks) ==
    IF Len(ticks) = 0 THEN lim
    ELSE LET lo == PScale(LimDen, SeqMin(ticks))
             hi == PScale(LimDen, SeqMax(ticks))
         IN  IF PLeq(lim[1], lim[2])
             THEN <<PMin(lim[1], lo), PMax(lim[2], hi)>>
             ELSE <<PMax(lim[1], hi), PMin(lim[2], lo)>>

SetXTicks(a, ticks) == [a EXCEPT !.xticks = ticks, !.xlim = Widen(a.xlim, ticks)]

SetYTicks(a, ticks) == [a EXCEPT !.yticks = ticks, !.ylim = Widen(a.ylim, ticks)]

Ok(a) == [ax |-> a, err |-> "none"]

Raise(a, e) == [ax |-> a, err |-> e]

\* ------------------------------------------------------------ set_limits
\* the trim of one dimension: first and last tick inside the view, taken by
\* position in the sequence, and the ticks between them
TrimDim(ticks, lim) ==
    LET lo == PMin(lim[1], lim[2])
        hi == PMax(lim[1], lim[2])
        above == SelectSeq(ticks, LAMBDA t : PLeq(lo, PScale(LimDen, t)))
        below == SelectSeq(ticks, LAMBDA t : PLeq(PScale(LimDen, t), hi))
    IN  IF Len(above) = 0 \/ Len(below) = 0
        THEN [err |-> "IndexError", first |-> <<0, 0>>, last |-> <<0, 0>>, newticks |-> <<>>]
        ELSE LET firsttick == above[1]
                 lasttick == below[Len(below)]
                 upto == SelectSeq(ticks, LAMBDA t : PLeq(t, lasttick))
             IN  [err |-> "none", first |-> firsttick, last |-> lasttick,
                  newticks |-> SelectSeq(upto, LAMBDA t : PLeq(firsttick, t))]

TrimX(a) ==
    IF Len(a.xticks) = 0 THEN Ok(a)
    ELSE LET r == TrimDim(a.xticks, a.xlim)
         IN  IF r.err # "none" THEN Raise(a, r.err)
             ELSE Ok(SetXTicks([a EXCEPT !.spines.bottom.bounds = <<r.first, r.last>>,
                                         !.spines.top.bounds = <<r.first, r.last>>],
                               r.newticks))

TrimY(a) ==
    IF Len(a.yticks) = 0 THEN Ok(a)
    ELSE LET r == TrimDim(a.yticks, a.ylim)
         IN  IF r.err # "none" THEN Raise(a, r.err)
             ELSE Ok(SetYTicks([a EXCEPT !.spines.left.bounds = <<r.first, r.last>>,
                                         !.spines.right.bounds = <<r.first, r.last>>],
                               r.newticks))

\* [min - max*factor, max*(factor + 1)], times LimDen
Padded(ticks, factor) ==
    LET mx == SeqMax(ticks)
        mn == SeqMin(ticks)
    IN  <<PSub(PScale(LimDen, mn), PScale(factor, mx)), PScale(LimDen + factor, mx)>>

Rescale(a, x_factor, y_factor, despine) ==
    IF Len(a.xticks) = 0 \/ Len(a.yticks) = 0 THEN Raise(a, "ValueError")
    ELSE LET b == [a EXCEPT !.xlim = Padded(a.xticks, x_factor),
                            !.ylim = Padded(a.yticks, y_factor)]
         IN  Ok(IF despine
                THEN [b EXCEPT !.spines.top.visible = FALSE,
                               !.spines.right.visible = FALSE]
                ELSE b)

set_limits(a, x_factor, y_factor, despine) ==
    LET rx == TrimX(a)
    IN  IF rx.err # "none" THEN rx
        ELSE LET ry == TrimY(rx.ax)
             IN  IF ry.err # "none" THEN ry
                 ELSE Rescale(ry.ax, x_factor, y_factor, despine)

\* ------------------------------------------------------ add_custom_ticks
\* a dict that moves an overwritten key to the end
DictSetMoveToEnd(d, k, v) == Append(SelectSeq(d, LAMBDA e : e[1] # k), <<k, v>>)

\* dict(...)[k] = v on an insertion-ordered dict held as a sequence of
\* <<key, value>> pairs: an existing key keeps its place
DictSet(d, k, v) ==
    IF \E i \in 1..Len(d) : d[i][1] = k
    THEN [i \in 1..Len(d) |-> IF d[i][1] = k THEN <<k, v>> ELSE d[i]]
    ELSE Append(d, <<k, v>>)

\* the dict after inserting zip(keys, vals) into d; zip stops at the shorter
RECURSIVE DictUpdate(_, _, _)
DictUpdate(d, keys, vals) ==
    IF Len(keys) = 0 \/ Len(vals) = 0 THEN d
    ELSE DictUpdate(DictSet(d, keys[1], vals[1]), Tail(keys), Tail(vals))

Keys(d) == [i \in 1..Len(d) |-> d[i][1]]

Values(d) == [i \in 1..Len(d) |-> d[i][2]]

FixedLabels(s) == [fixed |-> TRUE, seq |-> s]

AutoLabels == [fixed |-> FALSE, seq |-> <<>>]

\* ticks rounded, their text read back, merged with the new pairs
MergeTicks(ticks, new_locs, new_labels) ==
    LET rounded == [i \in 1..Len(ticks) |-> Round9(ticks[i])]
        labels == [i \in 1..Len(rounded) |-> NumText(rounded[i])]
        tick_dict == DictUpdate(<<>>, rounded, labels)
    IN  DictUpdate(tick_dict, new_locs, new_labels)

add_custom_ticks(a, new_locs, new_labels, which) ==
    IF which = "x"
    THEN LET d == MergeTicks(a.xticks, new_locs, new_labels)
         IN  Ok([SetXTicks(a, Keys(d)) EXCEPT !.xlabels = FixedLabels(Values(d))])
    ELSE IF which = "y"
    THEN LET d == MergeTicks(a.yticks, new_locs, new_labels)
         IN  Ok([SetYTicks(a, Keys(d)) EXCEPT !.ylabels = FixedLabels(Values(d))])
    ELSE Raise(a, "TypeError")

\* ------------------------------------------------------- beautify_bars_h
RECURSIVE MaxWidth(_, _)
MaxWidth(patches, max_value) ==
    IF Len(patches) = 0 THEN max_value
    ELSE MaxWidth(Tail(patches),
                  IF patches[1].width > max_value THEN patches[1].width ELSE max_value)

\* max_value * (1 + factor + 0.5 * factor), times EdgeDen
Edge(max_value, factor) == max_value * (EdgeDen + 3 * factor)

\* max_value * (1 + 2 * factor + 0.5 * factor), times EdgeDen
FontBegin(max_value, factor) == max_value * (EdgeDen + 5 * factor)

\* bar widths are whole, so np.round(width, rounding) is the width itself
beautify_bars_h(a, index, factor, num_bars_per_group) ==
    IF Len(a.patches) = 0 THEN Raise(a, "IndexError")
    ELSE
    LET num == Len(a.patches)
        p0 == a.patches[1]
        p1 == a.patches[(num \div num_bars_per_group) + 1]
        gap == IF num_bars_per_group > 1 THEN p1.y - p0.y - p0.height ELSE 0
        width == p0.height
        shift == ((num_bars_per_group - 1) * (width + gap)) \div 2
        yticks == [i \in 1..Len(index) |-> <<index[i] + shift, 0>>]
        max_value == MaxWidth(a.patches, 0)
        edge == Edge(max_value, factor)
        font_begin == FontBegin(max_value, factor)
        text(p) == [val |-> p.width, x |-> EdgeDen * p.x + font_begin, y |-> 2 * p.y + gap]
        line(p) == [x0 |-> EdgeDen * p.width, x1 |-> edge, y |-> 2 * p.y + p.height]
        b == SetYTicks([SetXTicks(a, <<>>) EXCEPT
                          !.xlim = <<<<-(factor * max_value), 0>>,
                                     <<max_value * (LimDen + 3 * factor), 0>>>>],
                       yticks)
    IN  Ok([b EXCEPT !.ytick_length = 0,
                     !.texts = a.texts \o [i \in 1..num |-> text(a.patches[i])],
                     !.lines = a.lines \o [i \in 1..num |-> line(a.patches[i])],
                     !.spines.left.visible = FALSE,
                     !.spines.right.visible = FALSE,
                     !.spines.bottom.visible = FALSE,
                     !.spines.top.visible = FALSE])

\* ----------------------------------------------------- make_better_graph
\* x_new_ticks / y_new_ticks: None, or a dict held as <<key, value>> pairs
make_better_graph(a, x_new_ticks, y_new_ticks, x_factor, y_factor, despine) ==
    LET r0 == set_limits(a, x_factor, y_factor, despine)
    IN  IF r0.err # "none" THEN r0
        ELSE LET r1 == IF x_new_ticks.none THEN r0
                       ELSE add_custom_ticks(r0.ax, Keys(x_new_ticks.d),
                                             Values(x_new_ticks.d), "x")
             IN  IF r1.err # "none" THEN r1
                 ELSE IF y_new_ticks.none THEN r1
                      ELSE add_custom_ticks(r1.ax, Keys(y_new_ticks.d),
                                            Values(y_new_ticks.d), "y")

\* ------------------------------------------------------- the state machine
P(w) == <<w, 0>>

Spine == [bounds |-> <<>>, visible |-> TRUE]

\* a bar of barh: left edge 0, even y and height so that the halves
\* gap / 2 and height / 2 stay whole; a negative value has a negative width
Bar(y, width) == [x |-> 0, y |-> y, width |-> width, height |-> 2]

Axis(xt, xl, yt, yl, ps) ==
    [xticks |-> xt, yticks |-> yt, xlabels |-> AutoLabels, ylabels |-> AutoLabels,
     xlim |-> xl, ylim |-> yl,
     spines |-> [left |-> Spine, right |-> Spine, bottom |-> Spine, top |-> Spine],
     ytick_length |-> 1, patches |-> ps, texts |-> <<>>, lines |-> <<>>]

\* tick sequences, view limits (times LimDen) and bar charts an axis starts with
XTickChoices == {<<>>, <<P(0), P(50), P(100)>>, <<P(-100), P(-50)>>}

XLimChoices == {<<P(-1100), P(1100)>>, <<P(100), P(900)>>}

YTickChoices == {<<>>, <<P(-1), P(0), P(1)>>}

YLimChoices == {<<P(-11), P(11)>>}

PatchChoices == {<<Bar(0, 3), Bar(4, 7), Bar(8, 5)>>, <<Bar(0, -3), Bar(4, -7)>>}

LinePlots ==
    {Axis(xt, xl, yt, yl, <<>>) :
        xt \in XTickChoices, xl \in XLimChoices, yt \in YTickChoices, yl \in YLimChoices}

BarPlots ==
    {Axis(<<P(0), P(5)>>, <<P(-80), P(80)>>, <<P(0), P(4), P(8)>>, <<P(-10), P(100)>>, ps) :
        ps \in PatchChoices}

\* the arguments the calls are made with
LimitArgs == {<<1, 1, TRUE>>, <<0, 1, FALSE>>, <<1, 0, TRUE>>}

LocSeqs == {<<P(25)>>, <<<<25, 1>>>>, <<<<50, 1>>>>, <<P(75), P(50)>>}

LabelSeqs == {<<Txt(1)>>, <<Txt(1), Txt(2)>>}

TickArgs ==
    {<<l, t, "x">> : l \in LocSeqs, t \in LabelSeqs}
        \cup {<<<<P(0), P(25)>>, t, "y">> : t \in LabelSeqs}
        \cup {<<<<P(25)>>, <<Txt(1)>>, "z">>}

BarArgs == {<<<<0, 4, 8>>, f, n>> : f \in {1, 2}, n \in {1, 2}}

Dicts == {<<<<P(25), Txt(1)>>, <<P(75), Txt(2)>>>>}

Optional == {[none |-> TRUE, d |-> <<>>]} \cup {[none |-> FALSE, d |-> d] : d \in Dicts}

GraphArgs == {<<x, y, k>> : x \in Optional, y \in Optional, k \in {<<1, 1, TRUE>>}}

NoCall == [op |-> "none", args |-> <<>>]

Init ==
    /\ ax \in LinePlots \cup BarPlots
    /\ prev = ax
    /\ last = NoCall
    /\ err = "none"
    /\ rep = FALSE
    /\ calls = 0

\* one call: the axis is whatever the call left, also when it raised
Call(op, args, r) ==
    /\ calls < MaxCalls
    /\ Len(r.ax.xticks) <= MaxTicks
    /\ Len(r.ax.yticks) <= MaxTicks
    /\ ax' = r.ax
    /\ prev' = ax
    /\ last' = [op |-> op, args |-> args]
    /\ err' = r.err
    /\ rep' = (last.op = op /\ last.args = args /\ err = "none")
    /\ calls' = calls + 1

SetLimits ==
    \E args \in LimitArgs :
        Call("set_limits", args, set_limits(ax, args[1], args[2], args[3]))

AddCustomTicks ==
    \E args \in TickArgs :
        Call("add_custom_ticks", args, add_custom_ticks(ax, args[1], args[2], args[3]))

BeautifyBarsH ==
    \E args \in BarArgs :
        Call("beautify_bars_h", args, beautify_bars_h(ax, args[1], args[2], args[3]))

MakeBetterGraph ==
    \E args \in GraphArgs :
        Call("make_better_graph", args,
             make_better_graph(ax, args[1], args[2], args[3][1], args[3][2], args[3][3]))

Next == SetLimits \/ AddCustomTicks \/ BeautifyBarsH \/ MakeBetterGraph

Spec == Init /\ [][Next]_vars

\* ---------------------------------------------------- what the claims use
Range(s) == {s[i] : i \in 1..Len(s)}

InView(t, lim) ==
    /\ PLeq(PMin(lim[1], lim[2]), PScale(LimDen, t))
    /\ PLeq(PScale(LimDen, t), PMax(lim[1], lim[2]))

ViewTicks(ticks, lim) == SelectSeq(ticks, LAMBDA t : InView(t, lim))

AllInView(ticks, lim) == \A t \in Range(ticks) : InView(t, lim)

\* what a caller can see of the axis's ticks, labels, limits and spines
Observable(a) == <<a.xticks, a.yticks, a.xlabels, a.ylabels, a.xlim, a.ylim, a.spines>>

DimTicks(a, which) == IF which = "x" THEN a.xticks ELSE a.yticks

DimLabels(a, which) == IF which = "x" THEN a.xlabels ELSE a.ylabels

\* a sequence without the later repetitions of its elements
RECURSIVE Dedup(_)
Dedup(s) ==
    IF Len(s) = 0 THEN s
    ELSE LET d == Dedup(SubSeq(s, 1, Len(s) - 1))
         IN  IF s[Len(s)] \in Range(d) THEN d ELSE Append(d, s[Len(s)])

Shorter(a, b) == IF Len(a) <= Len(b) THEN Len(a) ELSE Len(b)

\* C1: set_limits on an axis with no ticks on one dimension and some on the
\* other raises nothing and leaves the empty dimension's view limits alone
C1_EmptyDimensionSkipped ==
    (last.op = "set_limits" /\
        ((Len(prev.xticks) = 0 /\ Len(prev.yticks) > 0) \/
         (Len(prev.yticks) = 0 /\ Len(prev.xticks) > 0)))
    => /\ err = "none"
       /\ Len(prev.xticks) = 0 => ax.xlim = prev.xlim
       /\ Len(prev.yticks) = 0 => ax.ylim = prev.ylim

\* C2: when every tick lies within the view, set_limits drops no tick and
\* adds none, whatever the order of the tick sequence
C2_TickSetUnchanged ==
    (last.op = "set_limits" /\ AllInView(prev.xticks, prev.xlim)
                            /\ AllInView(prev.yticks, prev.ylim))
    => /\ Range(ax.xticks) = Range(prev.xticks)
       /\ Range(ax.yticks) = Range(prev.yticks)
       /\ Len(ax.xticks) = Len(prev.xticks)
       /\ Len(ax.yticks) = Len(prev.yticks)

\* C3: a second set_limits with the same factors, right after a first that
\* succeeded, succeeds and leaves ticks and view limits as the first left them
C3_SetLimitsIdempotent ==
    (last.op = "set_limits" /\ rep)
    => /\ err = "none"
       /\ ax.xticks = prev.xticks /\ ax.yticks = prev.yticks
       /\ ax.xlim = prev.xlim /\ ax.ylim = prev.ylim

\* C4: add_custom_ticks repeated with the same equal-length arguments leaves
\* the dimension's tick positions and labels as the first call left them
C4_AddTwiceSameAsOnce ==
    (last.op = "add_custom_ticks" /\ rep /\ Len(last.args[1]) = Len(last.args[2]))
    => /\ DimTicks(ax, last.args[3]) = DimTicks(prev, last.args[3])
       /\ DimLabels(ax, last.args[3]) = DimLabels(prev, last.args[3])

\* C5: when every new position equals, after rounding to 9 decimals, a tick
\* the dimension already has, the number of ticks stays what it was and no
\* two resulting ticks are equal after rounding
C5_CollisionOverwrites ==
    (/\ last.op = "add_custom_ticks" /\ err = "none"
     /\ Len(last.args[1]) = Len(last.args[2])
     /\ \A l \in Range(last.args[1]) :
            \E t \in Range(DimTicks(prev, last.args[3])) : Round9(l) = Round9(t))
    => LET ticks == DimTicks(ax, last.args[3])
       IN  /\ Len(ticks) = Len(DimTicks(prev, last.args[3]))
           /\ \A i, j \in 1..Len(ticks) : Round9(ticks[i]) = Round9(ticks[j]) => i = j

\* C6: a call that ends in an error has changed nothing of the axis's ticks,
\* labels, view limits, spine bounds or spine visibility
C6_AllOrNothing == err # "none" => Observable(ax) = Observable(prev)

\* C7: add_custom_ticks with new_locs and new_labels of different lengths
\* raises, and applies none of the pairs
C7_LengthMismatchRaises ==
    (last.op = "add_custom_ticks" /\ Len(last.args[1]) # Len(last.args[2]))
    => err # "none" /\ Observable(ax) = Observable(prev)

\* C8: after set_limits on an axis with a tick in view on each dimension, the
\* limits are [min - max*padding, max*(1 + padding)] for min and max the lowest
\* and highest tick within the view before the call; ticks [0, 50, 100] in
\* view with x_factor 0.1 give x limits [-10, 110]
PaddedView(ticks, lim, factor) ==
    LET inview == ViewTicks(ticks, lim)
        lo == SeqMin(inview)
        hi == SeqMax(inview)
    IN  <<PSub(PScale(LimDen, lo), PScale(factor, hi)), PScale(LimDen + factor, hi)>>

C8_PaddedLimits ==
    (/\ last.op = "set_limits"
     /\ Len(ViewTicks(prev.xticks, prev.xlim)) > 0
     /\ Len(ViewTicks(prev.yticks, prev.ylim)) > 0)
    => /\ err = "none"
       /\ ax.xlim = PaddedView(prev.xticks, prev.xlim, last.args[1])
       /\ ax.ylim = PaddedView(prev.yticks, prev.ylim, last.args[2])
       /\ (prev.xticks = <<P(0), P(50), P(100)>> /\ AllInView(prev.xticks, prev.xlim)
              /\ last.args[1] = 1)
          => ax.xlim = <<P(-100), P(1100)>>

\* C9: beautify_bars_h draws every connector to M*(1 + 1.5*f) and starts the
\* value texts at M*(1 + 2.5*f), M the largest bar width; widths [3, 7, 5] and
\* f = 0.1 give 8.05 and 8.75
LargestWidth(patches) ==
    CHOOSE m \in {patches[i].width : i \in 1..Len(patches)} :
        \A i \in 1..Len(patches) : patches[i].width <= m

C9_EdgeFromLargestBar ==
    (last.op = "beautify_bars_h" /\ err = "none")
    => LET M == LargestWidth(prev.patches)
           f == last.args[2]
           num == Len(prev.patches)
           base == Len(prev.lines)
       IN  /\ Len(ax.lines) = base + num /\ Len(ax.texts) = base + num
           /\ \A i \in 1..num :
                 /\ 100 * ax.lines[base + i].x1 = EdgeDen * M * (100 + 15 * f)
                 /\ 100 * (ax.texts[base + i].x - EdgeDen * prev.patches[i].x)
                        = EdgeDen * M * (100 + 25 * f)
           /\ ([i \in 1..num |-> prev.patches[i].width] = <<3, 7, 5>> /\ f = 1)
              => \A i \in 1..num : /\ 100 * ax.lines[base + i].x1 = 805 * EdgeDen
                                   /\ 100 * ax.texts[base + i].x = 875 * EdgeDen

\* C10: add_custom_ticks writes back the dimension's original ticks (as it
\* reads them, rounded to 9 decimals) first and in their original order, then
\* the genuinely new positions in the order supplied; the labels run parallel,
\* and an overwritten original tick keeps its place
C10_OriginalFirstNewAppended ==
    (last.op = "add_custom_ticks" /\ err = "none")
    => LET which == last.args[3]
           m == Shorter(last.args[1], last.args[2])
           locs == SubSeq(last.args[1], 1, m)
           labs == SubSeq(last.args[2], 1, m)
           old == DimTicks(prev, which)
           orig == Dedup([i \in 1..Len(old) |-> Round9(old[i])])
           new == Dedup(SelectSeq(locs, LAMBDA l : l \notin Range(orig)))
           ticks == DimTicks(ax, which)
           labels == DimLabels(ax, which)
           supplied(t) == {i \in 1..m : locs[i] = t}
           latest(t) == CHOOSE i \in supplied(t) : \A j \in supplied(t) : j <= i
       IN  /\ ticks = orig \o new
           /\ labels.fixed /\ Len(labels.seq) = Len(ticks)
           /\ \A i \in 1..Len(ticks) :
                 labels.seq[i] = IF supplied(ticks[i]) = {} THEN NumText(ticks[i])
                                 ELSE labs[latest(ticks[i])]

\* an overwritten original tick in its place and a new position appended
C10_Witness ==
    /\ last.op = "add_custom_ticks" /\ err = "none" /\ last.args[3] = "x"
    /\ last.args[1] = <<P(75), P(50)>> /\ last.args[2] = <<Txt(1), Txt(2)>>
    /\ prev.xticks = <<P(0), P(50), P(100)>>
    /\ ax.xticks = <<P(0), P(50), P(100), P(75)>>
    /\ ax.xlabels.seq = <<NumText(P(0)), Txt(2), NumText(P(100)), Txt(1)>>

====
